---- MODULE Spec2Model ----
(***************************************************************************)
(* Model of src/src/scripts/convert.py: the STL -> STEP conversion         *)
(* pipeline convert_stl_to_step, with repair_mesh and get_mesh_info.       *)
(*                                                                         *)
(* One invocation is a sequential process; pc is its position in the       *)
(* function.  Every call into the geometry kernel (Mesh, Part, Import,     *)
(* FreeCAD) or the filesystem is a step whose outcome is chosen            *)
(* nondeterministically: it returns, or it raises an Exception.            *)
(* os.path.exists never raises (it returns False on OSError).              *)
(* The keys "input", "output" and "tolerance" of the result are copied     *)
(* from the arguments and never change; they are not modelled.             *)
(* Spec is one run of main; SpecRepair is repair_mesh run twice on one     *)
(* mesh.                                                                   *)
(***************************************************************************)
EXTENDS Integers, Sequences, FiniteSets

\* ---- bounds of the model ----
MaxPoints == 2
MaxFacets == 2
MaxSize == 1

VARIABLES
    pc,            \* position in convert_stl_to_step
    repair,        \* argument repair
    info_only,     \* argument info_only
    input_exists,  \* os.path.exists(input_path)
    file_mesh,     \* the mesh stored in the input file
    mesh,          \* the in-memory mesh object
    result,        \* the result dict
    exc,           \* the exception in flight ("" when none)
    doc,           \* the FreeCAD document "STLtoSTEP": none, open, closed
    final_shape,   \* local final_shape: "None", "solid" or "shape"
    obj_shape,     \* obj.Shape of the document object
    exported,      \* geometry handed to Import.export ("None" before)
    out,           \* the file at output_path
    repairs,       \* local list repairs of repair_mesh
    calls,         \* collaborator calls made so far, in order
    raised,        \* an exception left convert_stl_to_step
    exit_code,     \* status main passed to sys.exit (NoExit before)
    pass,          \* which run of repair_mesh on the mesh this is: 1 or 2
    first_log,     \* the repairs list the first run of repair_mesh returned
    pass_mesh      \* the mesh as the current run of repair_mesh received it

vars == <<pc, repair, info_only, input_exists, file_mesh, mesh, result, exc,
          doc, final_shape, obj_shape, exported, out, repairs, calls, raised,
          exit_code, pass, first_log, pass_mesh>>

\* ---- values ----
EmptyMesh == [points |-> 0, facets |-> 0,
              has_self_intersections |-> FALSE, has_non_manifolds |-> FALSE]

Meshes == [points : 1..MaxPoints, facets : 0..MaxFacets,
           has_self_intersections : BOOLEAN, has_non_manifolds : BOOLEAN]

NoFile == [exists |-> FALSE, size |-> 0, content |-> "none"]
OldFile == [exists |-> TRUE, size |-> 1, content |-> "old"]

\* result = {"success": False, "input": ..., "output": ..., "tolerance": ...}
\* keys is the set of optional keys present in the dict; the value fields
\* are meaningful only for keys that are present.
InitResult == [success |-> FALSE, keys |-> {}, error |-> "", stage |-> "",
               mesh_info_before |-> EmptyMesh, repairs |-> <<>>,
               mesh_info_after |-> EmptyMesh, is_solid |-> FALSE,
               output_size |-> 0]

\* the process has not exited yet
NoExit == -1

Has(k) == k \in result.keys

\* result[k] = v
SetKey(r, k, v) ==
    [([r EXCEPT ![k] = v]) EXCEPT !.keys = r.keys \cup {k}]

\* one collaborator call and its outcome
Call(op, ok) == [op |-> op, ok |-> ok]

Called(op) == \E i \in 1..Len(calls) : calls[i].op = op
Returned(op) == \E i \in 1..Len(calls) : calls[i].op = op /\ calls[i].ok
Faulted(op) == \E i \in 1..Len(calls) : calls[i].op = op /\ ~calls[i].ok
Count(op) == Cardinality({i \in 1..Len(calls) : calls[i].op = op})

\* str(e) for the exception raised by collaborator call op
ExcMsg(op) == op

\* get_mesh_info(mesh): the snapshot of the mesh's current statistics
get_mesh_info(m) == m

Init ==
    /\ pc = "validate"
    /\ repair \in BOOLEAN
    /\ info_only \in BOOLEAN
    /\ input_exists \in BOOLEAN
    /\ file_mesh \in (IF input_exists THEN Meshes ELSE {EmptyMesh})
    /\ mesh = EmptyMesh
    /\ result = InitResult
    /\ exc = ""
    /\ doc = "none"
    /\ final_shape = "None"
    /\ obj_shape = "None"
    /\ exported = "None"
    /\ out \in {NoFile, OldFile}
    /\ repairs = <<>>
    /\ calls = <<>>
    /\ raised = FALSE
    /\ exit_code = NoExit
    /\ pass = 1
    /\ first_log = <<>>
    /\ pass_mesh = EmptyMesh

\* a collaborator call op raises: control passes to the except clause
Raise(op) ==
    /\ calls' = Append(calls, Call(op, FALSE))
    /\ exc' = ExcMsg(op)
    /\ pc' = "except"

\* a collaborator call op returns and control passes to position next
Return(op, next) ==
    /\ calls' = Append(calls, Call(op, TRUE))
    /\ exc' = exc
    /\ pc' = next


\* Validate with the existence test dropped: a missing input is read anyway
Validate_NoCheck ==
    /\ pc = "validate"
    /\ result' = result
    /\ pc' = "read"
    /\ UNCHANGED <<repair, info_only, input_exists, file_mesh, mesh, exc, doc,
                   final_shape, obj_shape, exported, out, repairs, calls, raised,
                   exit_code, pass, first_log, pass_mesh>>

\* if not os.path.exists(input_path): error, stage "validation", return
Validate ==
    /\ pc = "validate"
    /\ IF ~input_exists
       THEN /\ result' = SetKey(SetKey(result, "error", "Input file not found"),
                                "stage", "validation")
            /\ pc' = "done"
       ELSE /\ result' = result
            /\ pc' = "read"
    /\ UNCHANGED <<repair, info_only, input_exists, file_mesh, mesh, exc, doc,
                   final_shape, obj_shape, exported, out, repairs, calls, raised,
                   exit_code, pass, first_log, pass_mesh>>

\* mesh = Mesh.Mesh(); mesh.read(input_path)
ReadMesh ==
    /\ pc = "read"
    /\ \/ /\ Return("Mesh.read", "empty_check")
          /\ mesh' = file_mesh
       \/ /\ Raise("Mesh.read")
          /\ mesh' = mesh
    /\ UNCHANGED <<repair, info_only, input_exists, file_mesh, result, doc,
                   final_shape, obj_shape, exported, out, repairs, raised,
                   exit_code, pass, first_log, pass_mesh>>


\* EmptyCheck with the facet test dropped: an empty mesh goes on
EmptyCheck_NoCheck ==
    /\ pc = "empty_check"
    /\ result' = result
    /\ pc' = "info_before"
    /\ UNCHANGED <<repair, info_only, input_exists, file_mesh, mesh, exc, doc,
                   final_shape, obj_shape, exported, out, repairs, calls, raised,
                   exit_code, pass, first_log, pass_mesh>>

\* if mesh.CountFacets == 0: error, stage "read", return
EmptyCheck ==
    /\ pc = "empty_check"
    /\ IF mesh.facets = 0
       THEN /\ result' = SetKey(SetKey(result, "error",
                                       "STL file contains no geometry"),
                                "stage", "read")
            /\ pc' = "done"
       ELSE /\ result' = result
            /\ pc' = "info_before"
    /\ UNCHANGED <<repair, info_only, input_exists, file_mesh, mesh, exc, doc,
                   final_shape, obj_shape, exported, out, repairs, calls, raised,
                   exit_code, pass, first_log, pass_mesh>>

\* result["mesh_info_before"] = get_mesh_info(mesh)
InfoBefore ==
    /\ pc = "info_before"
    /\ \/ /\ Return("get_mesh_info", "info_check")
          /\ result' = SetKey(result, "mesh_info_before", get_mesh_info(mesh))
       \/ /\ Raise("get_mesh_info")
          /\ result' = result
    /\ UNCHANGED <<repair, info_only, input_exists, file_mesh, mesh, doc,
                   final_shape, obj_shape, exported, out, repairs, raised,
                   exit_code, pass, first_log, pass_mesh>>


\* InfoOnly with the early return dropped: info mode converts as well
InfoOnly_NoReturn ==
    /\ pc = "info_check"
    /\ result' = result
    /\ pc' = "repair_check"
    /\ UNCHANGED <<repair, info_only, input_exists, file_mesh, mesh, exc, doc,
                   final_shape, obj_shape, exported, out, repairs, calls, raised,
                   exit_code, pass, first_log, pass_mesh>>

\* if info_only: success = True, return
InfoOnly ==
    /\ pc = "info_check"
    /\ IF info_only
       THEN /\ result' = [result EXCEPT !.success = TRUE]
            /\ pc' = "done"
       ELSE /\ result' = result
            /\ pc' = "repair_check"
    /\ UNCHANGED <<repair, info_only, input_exists, file_mesh, mesh, exc, doc,
                   final_shape, obj_shape, exported, out, repairs, calls, raised,
                   exit_code, pass, first_log, pass_mesh>>


\* RepairCheck ignoring the repair argument: the mesh is always repaired
RepairCheck_Always ==
    /\ pc = "repair_check"
    /\ repairs' = <<>>
    /\ pc' = "rm_dup_points"
    /\ UNCHANGED <<repair, info_only, input_exists, file_mesh, mesh, result,
                   exc, doc, final_shape, obj_shape, exported, out, calls,
                   raised,
                   exit_code, pass, first_log, pass_mesh>>

\* if repair: mesh, repairs = repair_mesh(mesh)   (repairs = [] on entry)
RepairCheck ==
    /\ pc = "repair_check"
    /\ IF repair
       THEN /\ repairs' = <<>>
            /\ pc' = "rm_dup_points"
       ELSE /\ repairs' = repairs
            /\ pc' = "new_doc"
    /\ UNCHANGED <<repair, info_only, input_exists, file_mesh, mesh, result,
                   exc, doc, final_shape, obj_shape, exported, out, calls,
                   raised,
                   exit_code, pass, first_log, pass_mesh>>

\* an entry of the repair report; n is the count an f-string embeds in it
Entry(msg, n) == [msg |-> msg, n |-> n]

\* the counts a duplicate removal can leave of n elements
Reduced(n) == IF n = 0 THEN {0} ELSE 1..n

\* points_before = mesh.CountPoints; mesh.removeDuplicatedPoints();
\* if mesh.CountPoints < points_before: repairs.append(...)
RemoveDuplicatedPoints ==
    /\ pc = "rm_dup_points"
    /\ \/ \E n \in Reduced(mesh.points) :
            /\ Return("removeDuplicatedPoints", "rm_dup_facets")
            /\ mesh' = [mesh EXCEPT !.points = n]
            /\ repairs' = IF n < mesh.points
                          THEN Append(repairs,
                                 Entry("Removed duplicate points",
                                       mesh.points - n))
                          ELSE repairs
       \/ /\ Raise("removeDuplicatedPoints")
          /\ UNCHANGED <<mesh, repairs>>
    /\ UNCHANGED <<repair, info_only, input_exists, file_mesh, result, doc,
                   final_shape, obj_shape, exported, out, raised,
                   exit_code, pass, first_log, pass_mesh>>

\* facets_before = mesh.CountFacets; mesh.removeDuplicatedFacets();
\* if mesh.CountFacets < facets_before: repairs.append(...)
RemoveDuplicatedFacets ==
    /\ pc = "rm_dup_facets"
    /\ \/ \E n \in Reduced(mesh.facets) :
            /\ Return("removeDuplicatedFacets", "check_selfint")
            /\ mesh' = [mesh EXCEPT !.facets = n]
            /\ repairs' = IF n < mesh.facets
                          THEN Append(repairs,
                                 Entry("Removed duplicate facets",
                                       mesh.facets - n))
                          ELSE repairs
       \/ /\ Raise("removeDuplicatedFacets")
          /\ UNCHANGED <<mesh, repairs>>
    /\ UNCHANGED <<repair, info_only, input_exists, file_mesh, result, doc,
                   final_shape, obj_shape, exported, out, raised,
                   exit_code, pass, first_log, pass_mesh>>

\* CheckSelfIntersections ignoring the test's answer: the fix always runs
CheckSelfIntersections_Always ==
    /\ pc = "check_selfint"
    /\ \/ Return("hasSelfIntersections", "fix_selfint")
       \/ Raise("hasSelfIntersections")
    /\ UNCHANGED <<repair, info_only, input_exists, file_mesh, mesh, result,
                   doc, final_shape, obj_shape, exported, out, repairs,
                   raised, exit_code, pass, first_log, pass_mesh>>

\* if mesh.hasSelfIntersections():
CheckSelfIntersections ==
    /\ pc = "check_selfint"
    /\ \/ Return("hasSelfIntersections",
                 IF mesh.has_self_intersections THEN "fix_selfint"
                                                ELSE "fix_degen")
       \/ Raise("hasSelfIntersections")
    /\ UNCHANGED <<repair, info_only, input_exists, file_mesh, mesh, result,
                   doc, final_shape, obj_shape, exported, out, repairs,
                   raised,
                   exit_code, pass, first_log, pass_mesh>>

\* mesh.fixSelfIntersections()
\* if not mesh.hasSelfIntersections(): repairs.append(...)
FixSelfIntersections ==
    /\ pc = "fix_selfint"
    /\ \/ \E still \in BOOLEAN :
            /\ mesh' = [mesh EXCEPT !.has_self_intersections = still]
            /\ \/ /\ calls' = calls \o <<Call("fixSelfIntersections", TRUE),
                                         Call("hasSelfIntersections", TRUE)>>
                  /\ exc' = exc
                  /\ pc' = "fix_degen"
                  /\ repairs' = IF ~still
                                THEN Append(repairs,
                                       Entry("Fixed self-intersections", 0))
                                ELSE repairs
               \/ /\ calls' = calls \o <<Call("fixSelfIntersections", TRUE),
                                         Call("hasSelfIntersections", FALSE)>>
                  /\ exc' = ExcMsg("hasSelfIntersections")
                  /\ pc' = "except"
                  /\ repairs' = repairs
       \/ /\ Raise("fixSelfIntersections")
          /\ UNCHANGED <<mesh, repairs>>
    /\ UNCHANGED <<repair, info_only, input_exists, file_mesh, result, doc,
                   final_shape, obj_shape, exported, out, raised,
                   exit_code, pass, first_log, pass_mesh>>

\* mesh.fixDegenerations(); repairs.append("Fixed degenerations")
FixDegenerations ==
    /\ pc = "fix_degen"
    /\ \/ /\ Return("fixDegenerations", "check_nonmanifold")
          /\ repairs' = Append(repairs, Entry("Fixed degenerations", 0))
       \/ /\ Raise("fixDegenerations")
          /\ repairs' = repairs
    /\ UNCHANGED <<repair, info_only, input_exists, file_mesh, mesh, result,
                   doc, final_shape, obj_shape, exported, out, raised,
                   exit_code, pass, first_log, pass_mesh>>

\* if mesh.hasNonManifolds():
CheckNonManifolds ==
    /\ pc = "check_nonmanifold"
    /\ \/ Return("hasNonManifolds",
                 IF mesh.has_non_manifolds THEN "rm_nonmanifold"
                                           ELSE "fill_holes")
       \/ Raise("hasNonManifolds")
    /\ UNCHANGED <<repair, info_only, input_exists, file_mesh, mesh, result,
                   doc, final_shape, obj_shape, exported, out, repairs,
                   raised,
                   exit_code, pass, first_log, pass_mesh>>

\* mesh.removeNonManifolds()
\* if not mesh.hasNonManifolds(): repairs.append(...)
RemoveNonManifolds ==
    /\ pc = "rm_nonmanifold"
    /\ \/ \E still \in BOOLEAN :
            /\ mesh' = [mesh EXCEPT !.has_non_manifolds = still]
            /\ \/ /\ calls' = calls \o <<Call("removeNonManifolds", TRUE),
                                         Call("hasNonManifolds", TRUE)>>
                  /\ exc' = exc
                  /\ pc' = "fill_holes"
                  /\ repairs' = IF ~still
                                THEN Append(repairs,
                                       Entry("Removed non-manifold geometry",
                                             0))
                                ELSE repairs
               \/ /\ calls' = calls \o <<Call("removeNonManifolds", TRUE),
                                         Call("hasNonManifolds", FALSE)>>
                  /\ exc' = ExcMsg("hasNonManifolds")
                  /\ pc' = "except"
                  /\ repairs' = repairs
       \/ /\ Raise("removeNonManifolds")
          /\ UNCHANGED <<mesh, repairs>>
    /\ UNCHANGED <<repair, info_only, input_exists, file_mesh, result, doc,
                   final_shape, obj_shape, exported, out, raised,
                   exit_code, pass, first_log, pass_mesh>>

\* FillupHoles that forgets to report itself
FillupHoles_NoLog ==
    /\ pc = "fill_holes"
    /\ \/ /\ Return("fillupHoles", "harmonize")
          /\ repairs' = repairs
       \/ /\ Raise("fillupHoles")
          /\ repairs' = repairs
    /\ UNCHANGED <<repair, info_only, input_exists, file_mesh, mesh, result,
                   doc, final_shape, obj_shape, exported, out, raised,
                   exit_code, pass, first_log, pass_mesh>>

\* mesh.fillupHoles(); repairs.append("Filled holes")
FillupHoles ==
    /\ pc = "fill_holes"
    /\ \/ /\ Return("fillupHoles", "harmonize")
          /\ repairs' = Append(repairs, Entry("Filled holes", 0))
       \/ /\ Raise("fillupHoles")
          /\ repairs' = repairs
    /\ UNCHANGED <<repair, info_only, input_exists, file_mesh, mesh, result,
                   doc, final_shape, obj_shape, exported, out, raised,
                   exit_code, pass, first_log, pass_mesh>>

\* mesh.harmonizeNormals(); repairs.append("Harmonized normals");
\* return mesh, repairs
HarmonizeNormals ==
    /\ pc = "harmonize"
    /\ \/ /\ Return("harmonizeNormals", "info_after")
          /\ repairs' = Append(repairs, Entry("Harmonized normals", 0))
       \/ /\ Raise("harmonizeNormals")
          /\ repairs' = repairs
    /\ UNCHANGED <<repair, info_only, input_exists, file_mesh, mesh, result,
                   doc, final_shape, obj_shape, exported, out, raised,
                   exit_code, pass, first_log, pass_mesh>>

\* result["repairs"] = repairs
\* result["mesh_info_after"] = get_mesh_info(mesh)
InfoAfter ==
    /\ pc = "info_after"
    /\ \/ /\ Return("get_mesh_info", "new_doc")
          /\ result' = SetKey(SetKey(result, "repairs", repairs),
                              "mesh_info_after", get_mesh_info(mesh))
       \/ /\ Raise("get_mesh_info")
          /\ result' = SetKey(result, "repairs", repairs)
    /\ UNCHANGED <<repair, info_only, input_exists, file_mesh, mesh, doc,
                   final_shape, obj_shape, exported, out, repairs, raised,
                   exit_code, pass, first_log, pass_mesh>>

\* doc = FreeCAD.newDocument("STLtoSTEP")
NewDocument ==
    /\ pc = "new_doc"
    /\ \/ /\ Return("newDocument", "make_shape")
          /\ doc' = "open"
       \/ /\ Raise("newDocument")
          /\ doc' = doc
    /\ UNCHANGED <<repair, info_only, input_exists, file_mesh, mesh, result,
                   final_shape, obj_shape, exported, out, repairs, raised,
                   exit_code, pass, first_log, pass_mesh>>

\* MakeShapeFromMesh with its fault swallowed: conversion goes on
MakeShapeFromMesh_Absorb ==
    /\ pc = "make_shape"
    /\ \/ Return("makeShapeFromMesh", "make_solid")
       \/ /\ calls' = Append(calls, Call("makeShapeFromMesh", FALSE))
          /\ exc' = exc
          /\ pc' = "make_solid"
    /\ UNCHANGED <<repair, info_only, input_exists, file_mesh, mesh, result,
                   doc, final_shape, obj_shape, exported, out, repairs,
                   raised, exit_code, pass, first_log, pass_mesh>>

\* shape = Part.Shape(); shape.makeShapeFromMesh(mesh.Topology, tolerance)
MakeShapeFromMesh ==
    /\ pc = "make_shape"
    /\ \/ Return("makeShapeFromMesh", "make_solid")
       \/ Raise("makeShapeFromMesh")
    /\ UNCHANGED <<repair, info_only, input_exists, file_mesh, mesh, result,
                   doc, final_shape, obj_shape, exported, out, repairs,
                   raised,
                   exit_code, pass, first_log, pass_mesh>>


\* MakeSolid without its inner try: a makeSolid fault reaches the outer except
MakeSolid_NoTry ==
    /\ pc = "make_solid"
    /\ \/ /\ Return("makeSolid", "add_object")
          /\ final_shape' = "solid"
          /\ result' = SetKey(result, "is_solid", TRUE)
       \/ /\ Raise("makeSolid")
          /\ final_shape' = final_shape
          /\ result' = result
    /\ UNCHANGED <<repair, info_only, input_exists, file_mesh, mesh, doc,
                   obj_shape, exported, out, repairs, raised,
                   exit_code, pass, first_log, pass_mesh>>

\* try: solid = Part.makeSolid(shape); final_shape = solid; is_solid = True
\* except Exception: final_shape = shape; is_solid = False
MakeSolid ==
    /\ pc = "make_solid"
    /\ \/ /\ calls' = Append(calls, Call("makeSolid", TRUE))
          /\ final_shape' = "solid"
          /\ result' = SetKey(result, "is_solid", TRUE)
       \/ /\ calls' = Append(calls, Call("makeSolid", FALSE))
          /\ final_shape' = "shape"
          /\ result' = SetKey(result, "is_solid", FALSE)
    /\ pc' = "add_object"
    /\ UNCHANGED <<repair, info_only, input_exists, file_mesh, mesh, exc, doc,
                   obj_shape, exported, out, repairs, raised,
                   exit_code, pass, first_log, pass_mesh>>

\* obj = doc.addObject("Part::Feature", "ConvertedMesh")
AddObject ==
    /\ pc = "add_object"
    /\ \/ Return("addObject", "set_shape")
       \/ Raise("addObject")
    /\ UNCHANGED <<repair, info_only, input_exists, file_mesh, mesh, result,
                   doc, final_shape, obj_shape, exported, out, repairs,
                   raised,
                   exit_code, pass, first_log, pass_mesh>>

\* SetShape that attaches the unpromoted shape whatever final_shape is
SetShape_Shell ==
    /\ pc = "set_shape"
    /\ \/ /\ Return("setShape", "export")
          /\ obj_shape' = "shape"
       \/ /\ Raise("setShape")
          /\ obj_shape' = obj_shape
    /\ UNCHANGED <<repair, info_only, input_exists, file_mesh, mesh, result,
                   doc, final_shape, exported, out, repairs, raised,
                   exit_code, pass, first_log, pass_mesh>>

\* obj.Shape = final_shape
SetShape ==
    /\ pc = "set_shape"
    /\ \/ /\ Return("setShape", "export")
          /\ obj_shape' = final_shape
       \/ /\ Raise("setShape")
          /\ obj_shape' = obj_shape
    /\ UNCHANGED <<repair, info_only, input_exists, file_mesh, mesh, result,
                   doc, final_shape, exported, out, repairs, raised,
                   exit_code, pass, first_log, pass_mesh>>

\* the files Import.export can leave at output_path when it returns:
\* nothing written, or a STEP file of some size (possibly empty)
Written == {[exists |-> TRUE, size |-> n, content |-> "step"] : n \in 0..MaxSize}

\* Import.export([obj], output_path)
Export ==
    /\ pc = "export"
    /\ exported' = obj_shape
    /\ \/ /\ Return("export", "verify")
          /\ out' \in {out} \cup Written
       \/ /\ Raise("export")
          /\ out' = out
    /\ UNCHANGED <<repair, info_only, input_exists, file_mesh, mesh, result,
                   doc, final_shape, obj_shape, repairs, raised,
                   exit_code, pass, first_log, pass_mesh>>


\* Verify that forgets result["success"] = True when the file exists
Verify_NoSuccess ==
    /\ pc = "verify"
    /\ IF out.exists
       THEN /\ result' = result
            /\ pc' = "getsize"
       ELSE /\ result' = SetKey(SetKey(result, "error",
                                       "STEP file was not created"),
                                "stage", "export")
            /\ pc' = "close"
    /\ UNCHANGED <<repair, info_only, input_exists, file_mesh, mesh, exc, doc,
                   final_shape, obj_shape, exported, out, repairs, calls,
                   raised,
                   exit_code, pass, first_log, pass_mesh>>

\* if os.path.exists(output_path): success = True
\* else: error "STEP file was not created", stage "export"
Verify ==
    /\ pc = "verify"
    /\ IF out.exists
       THEN /\ result' = [result EXCEPT !.success = TRUE]
            /\ pc' = "getsize"
       ELSE /\ result' = SetKey(SetKey(result, "error",
                                       "STEP file was not created"),
                                "stage", "export")
            /\ pc' = "close"
    /\ UNCHANGED <<repair, info_only, input_exists, file_mesh, mesh, exc, doc,
                   final_shape, obj_shape, exported, out, repairs, calls,
                   raised,
                   exit_code, pass, first_log, pass_mesh>>

\* result["output_size"] = os.path.getsize(output_path)
GetSize ==
    /\ pc = "getsize"
    /\ \/ /\ Return("getsize", "close")
          /\ result' = SetKey(result, "output_size", out.size)
       \/ /\ Raise("getsize")
          /\ result' = result
    /\ UNCHANGED <<repair, info_only, input_exists, file_mesh, mesh, doc,
                   final_shape, obj_shape, exported, out, repairs, raised,
                   exit_code, pass, first_log, pass_mesh>>

\* FreeCAD.closeDocument("STLtoSTEP") at the end of the try block
CloseDocument ==
    /\ pc = "close"
    /\ \/ /\ Return("closeDocument", "done")
          /\ doc' = IF doc = "open" THEN "closed" ELSE doc
       \/ /\ Raise("closeDocument")
          /\ doc' = doc
    /\ UNCHANGED <<repair, info_only, input_exists, file_mesh, mesh, result,
                   final_shape, obj_shape, exported, out, repairs, raised,
                   exit_code, pass, first_log, pass_mesh>>

\* except Exception as e: result["error"] = str(e); stage = "conversion"
Except ==
    /\ pc = "except"
    /\ result' = SetKey(SetKey(result, "error", exc), "stage", "conversion")
    /\ exc' = ""
    /\ pc' = "except_close"
    /\ UNCHANGED <<repair, info_only, input_exists, file_mesh, mesh, doc,
                   final_shape, obj_shape, exported, out, repairs, calls,
                   raised,
                   exit_code, pass, first_log, pass_mesh>>


\* ExceptClose that closes only a document this invocation has open
ExceptClose_IfOpen ==
    /\ pc = "except_close"
    /\ IF doc = "open"
       THEN \/ /\ calls' = Append(calls, Call("closeDocument", TRUE))
               /\ doc' = "closed"
            \/ /\ calls' = Append(calls, Call("closeDocument", FALSE))
               /\ doc' = doc
       ELSE /\ calls' = calls
            /\ doc' = doc
    /\ pc' = "done"
    /\ UNCHANGED <<repair, info_only, input_exists, file_mesh, mesh, result,
                   exc, final_shape, obj_shape, exported, out, repairs,
                   raised, exit_code, pass, first_log, pass_mesh>>

\* ExceptClose without the cleanup: the except clause returns at once
ExceptClose_NoCleanup ==
    /\ pc = "except_close"
    /\ pc' = "done"
    /\ UNCHANGED <<repair, info_only, input_exists, file_mesh, mesh, result,
                   exc, doc, final_shape, obj_shape, exported, out, repairs,
                   calls, raised,
                   exit_code, pass, first_log, pass_mesh>>

\* ExceptClose that exports what the document holds before closing it
ExceptClose_ExportFirst ==
    /\ pc = "except_close"
    /\ \E ok \in BOOLEAN :
          calls' = calls \o <<Call("export", TRUE), Call("closeDocument", ok)>>
    /\ doc' = doc
    /\ pc' = "done"
    /\ UNCHANGED <<repair, info_only, input_exists, file_mesh, mesh, result,
                   exc, final_shape, obj_shape, exported, out, repairs,
                   raised, exit_code, pass, first_log, pass_mesh>>

\* try: FreeCAD.closeDocument("STLtoSTEP")  except: pass   -- then return
ExceptClose ==
    /\ pc = "except_close"
    /\ \/ /\ calls' = Append(calls, Call("closeDocument", TRUE))
          /\ doc' = IF doc = "open" THEN "closed" ELSE doc
       \/ /\ calls' = Append(calls, Call("closeDocument", FALSE))
          /\ doc' = doc
    /\ pc' = "done"
    /\ UNCHANGED <<repair, info_only, input_exists, file_mesh, mesh, result,
                   exc, final_shape, obj_shape, exported, out, repairs,
                   raised,
                   exit_code, pass, first_log, pass_mesh>>

\* main with the exit status fixed at 0
SysExit_Zero ==
    /\ pc = "done"
    /\ exit_code' = 0
    /\ pc' = "exited"
    /\ UNCHANGED <<repair, info_only, input_exists, file_mesh, mesh, result,
                   exc, doc, final_shape, obj_shape, exported, out, repairs,
                   calls, raised, pass, first_log, pass_mesh>>

\* main: print(json.dumps(result)); sys.exit(0 if result["success"] else 1)
SysExit ==
    /\ pc = "done"
    /\ exit_code' = IF result.success THEN 0 ELSE 1
    /\ pc' = "exited"
    /\ UNCHANGED <<repair, info_only, input_exists, file_mesh, mesh, result,
                   exc, doc, final_shape, obj_shape, exported, out, repairs,
                   calls, raised, pass, first_log, pass_mesh>>

\* ---- the result as returned ----
Done == pc = "done"

\* the indices of the faults that no stage-specific handler absorbs: every
\* fault but that of makeSolid (inner try)
FaultIdx == {i \in 1..Len(calls) : ~calls[i].ok /\ calls[i].op # "makeSolid"}
FirstFault == CHOOSE i \in FaultIdx : \A j \in FaultIdx : i <= j

\* the calls made before the document is created
PreSessionOps == {"Mesh.read", "get_mesh_info", "removeDuplicatedPoints",
                  "removeDuplicatedFacets", "hasSelfIntersections",
                  "fixSelfIntersections", "fixDegenerations",
                  "hasNonManifolds", "removeNonManifolds", "fillupHoles",
                  "harmonizeNormals"}
RepairOps == PreSessionOps \ {"Mesh.read", "get_mesh_info"}
ReconstructionOps == {"newDocument", "makeShapeFromMesh", "makeSolid",
                      "addObject", "setShape", "export"}

\* C1: every returned result is either success=true with stage "complete"
\* and no error, or success=false with an error and a stage.
C1_ResultDichotomy ==
    Done => \/ /\ result.success
               /\ Has("stage") /\ result.stage = "complete"
               /\ ~Has("error")
            \/ /\ ~result.success
               /\ Has("error")
               /\ Has("stage")

\* C2: a fault that no stage-specific handler absorbs never leaves
\* convert_stl_to_step; the result has success=false, stage "fatal" and
\* the fault's message as error.
C2_FatalBoundary ==
    Done /\ FaultIdx # {} =>
        /\ ~raised
        /\ ~result.success
        /\ Has("stage") /\ result.stage = "fatal"
        /\ Has("error") /\ result.error = ExcMsg(calls[FirstFault].op)

\* C3: with a missing input path no collaborator is ever called (no mesh
\* read, repair, session, conversion or export), and the result returned
\* is success=false with stage "validation".
C3_MissingInput ==
    ~input_exists =>
        /\ calls = <<>>
        /\ doc = "none" /\ exported = "None" /\ out.content # "step"
        /\ pc \in {"validate", "done", "exited"}
        /\ Done => /\ ~result.success
                   /\ Has("stage") /\ result.stage = "validation"
                   /\ Has("error")

C3_Witness == Done /\ ~input_exists /\ Has("stage")

\* C4 (as claimed): a mesh read with zero facets returns success=false with
\* stage "empty_mesh", and nothing but the read is invoked.
C4_EmptyMeshStage ==
    Returned("Mesh.read") /\ file_mesh.facets = 0 =>
        /\ calls = <<Call("Mesh.read", TRUE)>>
        /\ Done => /\ ~result.success
                   /\ Has("stage") /\ result.stage = "empty_mesh"

\* C4 (amended): a mesh read with zero facets returns success=false with
\* stage "read" and the error "STL file contains no geometry", for every
\* repair and info_only, and nothing but the read is ever invoked.
C4_EmptyMeshRead ==
    Returned("Mesh.read") /\ file_mesh.facets = 0 =>
        /\ calls = <<Call("Mesh.read", TRUE)>>
        /\ doc = "none" /\ exported = "None" /\ out.content # "step"
        /\ pc \in {"empty_check", "done", "exited"}
        /\ Done => /\ ~result.success
                   /\ Has("stage") /\ result.stage = "read"
                   /\ Has("error")
                   /\ result.error = "STL file contains no geometry"

C4_Witness ==
    Done /\ Returned("Mesh.read") /\ file_mesh.facets = 0 /\ repair /\ info_only

\* C5: in info-only mode no session is created, no shape conversion, solid
\* promotion or export is invoked and the output file is never written,
\* with repair on or off; once the mesh is read and its statistics are
\* taken the result is success=true.
C5_InfoOnlyFrame ==
    info_only =>
        /\ \A i \in 1..Len(calls) : calls[i].op \notin ReconstructionOps
        /\ doc = "none" /\ exported = "None" /\ final_shape = "None"
        /\ out \in {NoFile, OldFile}
        /\ Done /\ Has("mesh_info_before") => result.success

C5_Witness ==
    /\ Done /\ info_only /\ repair /\ result.success
    /\ Has("mesh_info_before") /\ result.mesh_info_before.facets > 0
    /\ out = OldFile

\* C6: a makeSolid fault is not terminal: is_solid=false is recorded, the
\* shape is the final geometry, control goes on to attach and export it,
\* and the result is success=true once export and verification succeed.
C6_ShellFallback ==
    /\ Faulted("makeSolid") =>
           /\ Has("is_solid") /\ ~result.is_solid
           /\ final_shape = "shape"
           /\ obj_shape \in {"None", "shape"}
           /\ exported \in {"None", "shape"}
           /\ Called("export") => exported = "shape"
    /\ (calls # <<>> /\ calls[Len(calls)] = Call("makeSolid", FALSE)) =>
           pc = "add_object" /\ exc = "" /\ ~Has("error")
    /\ (Done /\ Faulted("makeSolid") /\ Returned("export") /\ out.exists
             /\ Returned("getsize")) => result.success

C6_Witness ==
    /\ Done /\ Faulted("makeSolid") /\ Returned("export")
    /\ exported = "shape" /\ result.success /\ ~result.is_solid

C8_AfterIffRepair ==
    Done => (Has("mesh_info_after") <=> (repair /\ Returned("Mesh.read")))

\* C8 (amended): in every returned result the after-repair snapshot is
\* present if and only if repair was requested, info_only was not, the
\* input exists with a non-empty mesh, and no mesh read, statistics or
\* repair operation faulted.
C8_AfterIffRepaired ==
    Done => (Has("mesh_info_after") <=>
                /\ repair /\ ~info_only
                /\ input_exists /\ file_mesh.facets > 0
                /\ \A i \in 1..Len(calls) :
                       calls[i].op \in PreSessionOps => calls[i].ok)

C8_Witness ==
    Done /\ Has("mesh_info_after") /\ repair /\ Faulted("export")

\* C9: once export is invoked, an export fault, a missing output file and
\* a zero-size output file each end with success=false (the first two with
\* different stages), so success=true on a non-info invocation implies a
\* recorded output size greater than zero.
C9_ExportVerified ==
    Done /\ Called("export") =>
        /\ Faulted("export") => ~result.success /\ Has("stage")
        /\ (Returned("export") /\ ~out.exists) =>
               /\ ~result.success /\ Has("stage")
               /\ result.stage # "conversion"
        /\ (Returned("export") /\ out.exists /\ out.size = 0) =>
               ~result.success /\ Has("stage")
        /\ result.success => Has("output_size") /\ result.output_size > 0

\* C10: an invocation that created the document has called closeDocument
\* after creating it by the time it returns, on every exit path.
C10_SessionClosed ==
    Done /\ Returned("newDocument") =>
        \E i, j \in 1..Len(calls) :
            /\ i < j
            /\ calls[i] = Call("newDocument", TRUE)
            /\ calls[j].op = "closeDocument"

C10_Witness ==
    Done /\ Returned("newDocument") /\ Faulted("makeShapeFromMesh")

\* the first unabsorbed fault is that of the closeDocument call that ends
\* the try block
CloseFaultedFirst ==
    FaultIdx # {} /\ calls[FirstFault].op = "closeDocument"

\* C11: a closeDocument fault never changes the primary result: success,
\* error and stage are those the same preceding outcomes give when the
\* close succeeds (a verified export stays success=true with no error, a
\* missing output stays stage "export", an earlier fault keeps its message).
C11_CloseFaultKeepsResult ==
    Done /\ Faulted("closeDocument") =>
        IF CloseFaultedFirst
        THEN IF out.exists
             THEN result.success /\ ~Has("error") /\ ~Has("stage")
             ELSE /\ ~result.success
                  /\ Has("error") /\ result.error = "STEP file was not created"
                  /\ Has("stage") /\ result.stage = "export"
        ELSE /\ Has("error") /\ result.error = ExcMsg(calls[FirstFault].op)
             /\ Has("stage") /\ result.stage = "conversion"

\* C12: when main ends, the exit code is 0 if the returned result has
\* success=true and 1 otherwise.
C12_ExitCode ==
    pc = "exited" =>
        /\ exit_code \in {0, 1}
        /\ exit_code = 0 <=> result.success

C12_Witness ==
    pc = "exited" /\ exit_code = 1 /\ Has("error") /\ Called("export")

\* the repair operations in the order repair_mesh makes them
RepairSequence == <<"removeDuplicatedPoints", "removeDuplicatedFacets",
                    "fixSelfIntersections", "fixDegenerations",
                    "removeNonManifolds", "fillupHoles", "harmonizeNormals">>
IsRepairOp(op) == \E k \in 1..Len(RepairSequence) : RepairSequence[k] = op
Rank(op) == CHOOSE k \in 1..Len(RepairSequence) : RepairSequence[k] = op
\* the positions of the five operations made without a test
Unconditional == {1, 2, 4, 6, 7}

RepairFaulted ==
    \E i \in 1..Len(calls) : IsRepairOp(calls[i].op) /\ ~calls[i].ok

\* C14: a fault of a repair operation is caught inside the repair: the
\* remaining operations are still invoked (the sequence runs to its last
\* operation), the fault is not the result's error, and the pipeline goes
\* on to create the document and convert the shape.
C14_RepairFaultAbsorbed ==
    Done /\ RepairFaulted =>
        /\ Called("harmonizeNormals")
        /\ Called("newDocument")
        /\ \A i \in 1..Len(calls) :
               (IsRepairOp(calls[i].op) /\ ~calls[i].ok)
                   => ~(Has("error") /\ result.error = ExcMsg(calls[i].op))

\* the entries repair_mesh appends without comparing before and after
AlwaysLogged == <<Entry("Fixed degenerations", 0), Entry("Filled holes", 0),
                  Entry("Harmonized normals", 0)>>

\* the second run of repair_mesh has returned, and its kernel operations
\* left the mesh they were given unchanged
SecondPassDone == pass = 2 /\ pc = "info_after" /\ mesh = pass_mesh

\* C15 (as claimed): a second run of repair_mesh on the repaired mesh,
\* which the kernel leaves unchanged, returns a log that is empty or equal
\* to the log of the first run.
C15_SecondLogEmptyOrSame ==
    SecondPassDone => (repairs = <<>> \/ repairs = first_log)

\* C15 (amended): such a second run returns exactly the three entries
\* logged without comparison (Fixed degenerations, Filled holes, Harmonized
\* normals): its log is never empty, and it equals the log of the first run
\* exactly when the first run logged no effective removal or fix.
C15_SecondLogAlwaysLogged ==
    SecondPassDone =>
        /\ repairs = AlwaysLogged
        /\ repairs # <<>>
        /\ repairs = first_log <=> Len(first_log) = Len(AlwaysLogged)

C15_Witness ==
    SecondPassDone /\ Len(first_log) > Len(AlwaysLogged)

StageRank(p) ==
    CASE p = "validate" -> 1
      [] p = "read" -> 2
      [] p \in {"empty_check", "info_before", "info_check"} -> 3
      [] p \in {"repair_check", "rm_dup_points", "rm_dup_facets",
                "check_selfint", "fix_selfint", "fix_degen",
                "check_nonmanifold", "rm_nonmanifold", "fill_holes",
                "harmonize", "info_after"} -> 4
      [] p \in {"new_doc", "make_shape"} -> 5
      [] p = "make_solid" -> 6
      [] p \in {"add_object", "set_shape", "export"} -> 8
      [] p = "verify" -> 9
      [] p = "getsize" -> 9
      [] p = "close" -> 10
      [] p \in {"except", "except_close"} -> 11
      [] p \in {"done", "exited"} -> 12

\* a terminal failure is recorded or the pipeline is past verification
Finished ==
    Has("error") \/ pc \in {"close", "except", "except_close", "done", "exited"}

\* C17: the stages are entered in the fixed order only: a step never goes
\* back to an earlier stage (so no stage is entered twice or after a later
\* one), and once a terminal failure or completion is reached the only
\* call still made is closeDocument.
C17_StageOrder ==
    [][/\ StageRank(pc') >= StageRank(pc)
       /\ Finished =>
              /\ Len(calls') >= Len(calls)
              /\ \A i \in (Len(calls) + 1)..Len(calls') :
                     calls'[i].op = "closeDocument"]_vars

C17_Witness ==
    /\ Done /\ result.success /\ Has("mesh_info_after")
    /\ Has("is_solid") /\ Has("output_size") /\ ~Has("error")

\* C18: a planar merge (removeSplitter) is invoked after the final geometry
\* is chosen and before export, and every result that reached export
\* records planar_merge_applied.
C18_PlanarMerge ==
    Called("export") =>
        /\ \E i, j \in 1..Len(calls) :
               /\ i < j
               /\ calls[i].op = "removeSplitter"
               /\ calls[j].op = "export"
        /\ Has("planar_merge_applied")

\* C19 (as claimed): closeDocument is never called on a path that did not
\* create the document, and never more than once.
C19_CloseOnlyCreated ==
    /\ Count("closeDocument") <= 1
    /\ ~Returned("newDocument") => ~Called("closeDocument")

\* C19 (amended): closeDocument is called at most twice, and twice only
\* when the close that ends the try block raised and the except clause
\* closes again; on a path that ends before the document is created it is
\* called once, by the except clause, if a call raised, and not at all on
\* the early returns (missing input, empty mesh, info-only).
C19_CloseAtMostTwice ==
    /\ Count("closeDocument") <= 2
    /\ Count("closeDocument") = 2 =>
           /\ Returned("newDocument")
           /\ calls[Len(calls) - 1] = Call("closeDocument", FALSE)
           /\ calls[Len(calls)].op = "closeDocument"
    /\ (pc \in {"done", "exited"} /\ ~Returned("newDocument")) =>
           Count("closeDocument") = IF FaultIdx # {} THEN 1 ELSE 0

C19_Witness ==
    Done /\ ~Called("newDocument") /\ Faulted("fillupHoles")
         /\ Count("closeDocument") = 1

\* C20: whenever export is invoked is_solid is recorded, and the geometry
\* handed to export is the promoted solid exactly when is_solid=true and
\* the unpromoted shape exactly when is_solid=false.
C20_SolidFlagMatchesExport ==
    Called("export") =>
        /\ Has("is_solid")
        /\ exported \in {"solid", "shape"}
        /\ exported = "solid" <=> result.is_solid
        /\ exported = "shape" <=> ~result.is_solid

C20_Witness ==
    Done /\ Returned("export") /\ exported = "solid" /\ result.is_solid

Next ==
    \/ Validate
    \/ ReadMesh
    \/ EmptyCheck
    \/ InfoBefore
    \/ InfoOnly
    \/ RepairCheck
    \/ RemoveDuplicatedPoints
    \/ RemoveDuplicatedFacets
    \/ CheckSelfIntersections
    \/ FixSelfIntersections
    \/ FixDegenerations
    \/ CheckNonManifolds
    \/ RemoveNonManifolds
    \/ FillupHoles
    \/ HarmonizeNormals
    \/ InfoAfter
    \/ NewDocument
    \/ MakeShapeFromMesh
    \/ MakeSolid
    \/ AddObject
    \/ SetShape
    \/ Export
    \/ Verify
    \/ GetSize
    \/ CloseDocument
    \/ Except
    \/ ExceptClose
    \/ SysExit

Spec == Init /\ [][Next]_vars

\* ---- repair_mesh applied twice to one mesh ----
\* mesh, repairs = repair_mesh(mesh) on a mesh of the bounded set
InitRepair ==
    /\ pc = "rm_dup_points"
    /\ repair = TRUE
    /\ info_only = FALSE
    /\ input_exists = TRUE
    /\ file_mesh \in {m \in Meshes : m.facets > 0}
    /\ mesh = file_mesh
    /\ result = InitResult
    /\ exc = ""
    /\ doc = "none"
    /\ final_shape = "None"
    /\ obj_shape = "None"
    /\ exported = "None"
    /\ out = NoFile
    /\ repairs = <<>>
    /\ calls = <<>>
    /\ raised = FALSE
    /\ exit_code = NoExit
    /\ pass = 1
    /\ first_log = <<>>
    /\ pass_mesh = mesh

\* the first run returned (mesh, repairs): repair_mesh is called again on
\* the mesh it returned, with repairs = [] on entry
SecondPass ==
    /\ pc = "info_after"
    /\ pass = 1
    /\ first_log' = repairs
    /\ repairs' = <<>>
    /\ pass' = 2
    /\ pass_mesh' = mesh
    /\ pc' = "rm_dup_points"
    /\ UNCHANGED <<repair, info_only, input_exists, file_mesh, mesh, result,
                   exc, doc, final_shape, obj_shape, exported, out, calls,
                   raised, exit_code>>

NextRepair ==
    \/ RemoveDuplicatedPoints
    \/ RemoveDuplicatedFacets
    \/ CheckSelfIntersections
    \/ FixSelfIntersections
    \/ FixDegenerations
    \/ CheckNonManifolds
    \/ RemoveNonManifolds
    \/ FillupHoles
    \/ HarmonizeNormals
    \/ SecondPass

SpecRepair == InitRepair /\ [][NextRepair]_vars

====
